---- MODULE Spec2Model ----
(***************************************************************************)
(* State-machine model of the wgputris game engine: src/src/game.rs (Game),*)
(* src/src/tetromino.rs (Tetromino) and the Gameboard they drive.          *)
(* Times are in hundredths of a second.  The board is the map from the     *)
(* occupied cells <<x, y>> to their color; a cell outside its domain holds *)
(* None.                                                                   *)
(***************************************************************************)
EXTENDS Integers, Sequences, FiniteSets, TLC

\* ---------------------------------------------------------------- constants
BLOCK_SIZE == 12
GAMEBOARD_OFFSET == <<15, 1>>
GAMEBOARD_WIDTH == 10
GAMEBOARD_HEIGHT == 20
SECONDS_PER_TICK == 25
SCORE_PER_ROW == 400
NEXT_SHAPE_OFFSET == <<30, 7>>

\* usize arithmetic is modular; the modulus only has to exceed every
\* coordinate of the model (TLC integers are narrower than the target's).
UsizeMod == 2^30

\* ------------------------------------------------------------------- bounds
\* largest value the tick accumulator is allowed to reach in an update
MaxAcc == 75
\* gravity ticks explored while the first piece is played
MaxTicks == 1
\* rows, counted from the floor, that the stacks of SpecRows fill
MaxStackRows == 5
\* how far outside the grid, in cells, the pieces of SpecLock are put
MaxOutside == 2
\* pieces resolved in the overhang scenario
MaxShiftPieces == 1
\* pieces locked into the board after game over
MaxOverLocks == 2

Cols == 0..(GAMEBOARD_WIDTH - 1)
Rows == 0..(GAMEBOARD_HEIGHT - 1)

\* ------------------------------------------------------------ tetromino.rs
\* colors: yellow [1,1,0,1], cyan [0,1,1,1], red [1,0,0,1], green [0,1,0,1],
\* orange [1,.55,0,1], magenta [1,0,1,1], blue [0,0,1,1]
new_o == [x |-> 0, y |-> 0, color |-> "yellow",
          block_locs |-> << <<0, 1>>, <<1, 1>>, <<0, 0>>, <<1, 0>> >>]
new_i == [x |-> 0, y |-> 0, color |-> "cyan",
          block_locs |-> << <<0, 0>>, <<0, 1>>, <<0, 2>>, <<0, -1>> >>]
new_s == [x |-> 0, y |-> 0, color |-> "red",
          block_locs |-> << <<0, 1>>, <<-1, 1>>, <<0, 0>>, <<1, 0>> >>]
new_z == [x |-> 0, y |-> 0, color |-> "green",
          block_locs |-> << <<0, 0>>, <<0, 1>>, <<-1, 0>>, <<1, 1>> >>]
new_l == [x |-> 0, y |-> 0, color |-> "orange",
          block_locs |-> << <<0, 1>>, <<0, 0>>, <<0, -1>>, <<-1, -1>> >>]
new_j == [x |-> 0, y |-> 0, color |-> "magenta",
          block_locs |-> << <<0, 1>>, <<0, 0>>, <<0, -1>>, <<1, -1>> >>]
new_t == [x |-> 0, y |-> 0, color |-> "blue",
          block_locs |-> << <<1, 0>>, <<0, 0>>, <<-1, 0>>, <<0, -1>> >>]

\* rng.gen_range(0, 7)
RandNums == 0..6

\* a selector whose first arm takes the draw 0 as well: T is never made
new_random_no_t(rand_num) ==
    CASE rand_num \in {0, 1} -> new_o
      [] rand_num = 2 -> new_i
      [] rand_num = 3 -> new_s
      [] rand_num = 4 -> new_z
      [] rand_num = 5 -> new_l
      [] rand_num = 6 -> new_j
      [] OTHER -> new_t

new_random(rand_num) ==
    CASE rand_num = 1 -> new_o
      [] rand_num = 2 -> new_i
      [] rand_num = 3 -> new_s
      [] rand_num = 4 -> new_z
      [] rand_num = 5 -> new_l
      [] rand_num = 6 -> new_j
      [] OTHER -> new_t

set_pos(t, x, y) == [t EXCEPT !.x = x, !.y = y]

add_pos(t, x, y) == [t EXCEPT !.x = t.x + x, !.y = t.y + y]

\* a counter-clockwise step that loses the sign: a reflection
CcwLoc_mirror(p) == <<p[2], p[1]>>

\* one step of the loops of rotate_ccw and rotate_cw
CcwLoc(p) == <<p[2], 0 - p[1]>>
\* a clockwise step that reads the x offset twice
CwLoc_typo(p) == <<0 - p[1], p[1]>>

CwLoc(p) == <<0 - p[2], p[1]>>

\* a loop over 0..3 that stops one block short
rotate_ccw_three(t) ==
    [t EXCEPT !.block_locs =
        << CcwLoc(t.block_locs[1]), CcwLoc(t.block_locs[2]),
           CcwLoc(t.block_locs[3]), t.block_locs[4] >>]

rotate_ccw(t) ==
    [t EXCEPT !.block_locs =
        << CcwLoc(t.block_locs[1]), CcwLoc(t.block_locs[2]),
           CcwLoc(t.block_locs[3]), CcwLoc(t.block_locs[4]) >>]

rotate_cw(t) ==
    [t EXCEPT !.block_locs =
        << CwLoc(t.block_locs[1]), CwLoc(t.block_locs[2]),
           CwLoc(t.block_locs[3]), CwLoc(t.block_locs[4]) >>]

\* `v as usize` of an i32: negative values wrap to the top of the range
AsUsize(v) == IF v >= 0 THEN v ELSE UsizeMod + v

\* `a - b` on usize when the build does not check overflow
WrappingSub(a, b) == (a - b) % UsizeMod

\* some `(block + pos) as usize - GAMEBOARD_OFFSET` of get_mapped_locs has a
\* minuend smaller than the offset: the subtraction overflows
MappedLocsUnderflow(t) ==
    \E i \in 1..4 :
        \/ AsUsize(t.block_locs[i][1] + t.x) < GAMEBOARD_OFFSET[1]
        \/ AsUsize(t.block_locs[i][2] + t.y) < GAMEBOARD_OFFSET[2]

\* one entry of get_mapped_locs
MappedLoc(p, x, y) ==
    << WrappingSub(AsUsize(p[1] + x), GAMEBOARD_OFFSET[1]),
       WrappingSub(AsUsize(p[2] + y), GAMEBOARD_OFFSET[2]) >>

\* the value get_mapped_locs returns when it returns
get_mapped_locs(t) ==
    << MappedLoc(t.block_locs[1], t.x, t.y), MappedLoc(t.block_locs[2], t.x, t.y),
       MappedLoc(t.block_locs[3], t.x, t.y), MappedLoc(t.block_locs[4], t.x, t.y) >>

\* targets in screen coordinates, the board's offset not taken off
LockTarget_global(t, i) ==
    << AsUsize(t.block_locs[i][1] + t.x), AsUsize(t.block_locs[i][2] + t.y) >>

\* the (x, y) arguments lock_to_gameboard passes to set_content for block i
LockTarget(t, i) ==
    << AsUsize(t.block_locs[i][1] + t.x - GAMEBOARD_OFFSET[1]),
       AsUsize(t.block_locs[i][2] + t.y - GAMEBOARD_OFFSET[2]) >>

\* ------------------------------------------------------------- gameboard
GameboardNew == << >>

get_spawn_loc ==
    <<GAMEBOARD_OFFSET[1] + GAMEBOARD_WIDTH \div 2, GAMEBOARD_OFFSET[2] + 1>>

IsSome(b, x, y) == <<x, y>> \in DOMAIN b

\* callers pass in-bounds coordinates only
are_locs_empty(b, locs) ==
    \A i \in 1..Len(locs) : ~IsSome(b, locs[i][1], locs[i][2])

\* set_content returns Ok(()) iff the coordinate is inside the grid
SetContentOk(x, y) == x < GAMEBOARD_WIDTH /\ y < GAMEBOARD_HEIGHT

set_content(b, x, y, c) ==
    [p \in DOMAIN b \cup {<<x, y>>} |-> IF p = <<x, y>> THEN c ELSE b[p]]

IsRowComplete(b, y) == \A x \in Cols : IsSome(b, x, y)

CompleteRows(b) == {y \in Rows : IsRowComplete(b, y)}

\* a shift by all the removed rows, wherever they are
RowsBelow_all(complete, y) == Cardinality(complete)

\* the distance a surviving row y moves down: the complete rows below it
RowsBelow(complete, y) == Cardinality({r \in complete : r > y})

\* the board without the rows of `complete`, the rows above them moved down
RemoveRows(b, complete, keep) ==
    [q \in {<<p[1], p[2] + RowsBelow(complete, p[2])>> : p \in keep} |->
        b[CHOOSE p \in keep :
              /\ p[1] = q[1]
              /\ p[2] + RowsBelow(complete, p[2]) = q[2]]]

RemoveCompleted(b, complete) ==
    [count |-> Cardinality(complete),
     board |-> IF complete = {} THEN b
               ELSE RemoveRows(b, complete,
                               {p \in DOMAIN b : p[2] \notin complete})]

remove_completed_rows(b) == RemoveCompleted(b, CompleteRows(b))

\* ------------------------------------------------- tetromino.rs (locking)
\* lock_to_gameboard writes the blocks in order and aborts at the first
\* failing set_content; the blocks before it stay written
RECURSIVE LockFrom(_, _, _)
LockFrom(t, b, i) ==
    IF i > 4 THEN [ok |-> TRUE, board |-> b]
    ELSE IF SetContentOk(LockTarget(t, i)[1], LockTarget(t, i)[2])
    THEN LockFrom(t, set_content(b, LockTarget(t, i)[1], LockTarget(t, i)[2],
                                 t.color), i + 1)
    ELSE [ok |-> FALSE, board |-> b]

lock_to_gameboard(t, b) == LockFrom(t, b, 1)

\* ------------------------------------------------------------------ game.rs
VARIABLES
    score,              \* Game.score
    board,              \* Game.board
    next_shape,         \* Game.next_shape
    current_shape,      \* Game.current_shape
    seconds_since_tick, \* Game.seconds_since_tick
    shape_placed,       \* Game.shape_placed
    fault,              \* "none", or the abort that ended the process
    ret,                \* value returned by the latest call that returned
    game_over,          \* process_game_loop has returned true
    pieces,             \* post-placement resolutions completed so far
    ticks,              \* gravity ticks performed so far, up to MaxTicks
    placed_by,          \* what last turned shape_placed on: "tick", "key"
    vertices            \* array returned by the latest render(), <<>> at first

vars == <<score, board, next_shape, current_shape, seconds_since_tick,
          shape_placed, fault, ret, game_over, pieces, ticks, placed_by,
          vertices>>

\* a border test that lets the row under the floor through
AllWithinBorders_floor(mapped_locs) ==
    \A i \in 1..4 :
        /\ mapped_locs[i][1] < GAMEBOARD_WIDTH
        /\ mapped_locs[i][2] <= GAMEBOARD_HEIGHT

\* a border test against twice the height of the board
AllWithinBorders_tall(mapped_locs) ==
    \A i \in 1..4 :
        /\ mapped_locs[i][1] < GAMEBOARD_WIDTH
        /\ mapped_locs[i][2] < 2 * GAMEBOARD_HEIGHT

\* the loop of is_shape_within_borders over mapped_locs
AllWithinBorders(mapped_locs) ==
    \A i \in 1..4 :
        /\ mapped_locs[i][1] < GAMEBOARD_WIDTH
        /\ mapped_locs[i][2] < GAMEBOARD_HEIGHT

is_shape_within_borders(shape) == AllWithinBorders(get_mapped_locs(shape))

does_shape_intersect_locked_blocks(b, shape) ==
    ~are_locs_empty(b, get_mapped_locs(shape))

is_position_legal(b, shape) ==
    /\ is_shape_within_borders(shape)
    /\ ~does_shape_intersect_locked_blocks(b, shape)

\* the occupancy lookup made whatever the border test answered (`&`, not `&&`)
LookedUpLocs_eager(shape) ==
    {get_mapped_locs(shape)[i] : i \in 1..4}

\* the coordinates is_position_legal hands to are_locs_empty: `&&` evaluates
\* does_shape_intersect_locked_blocks only when the border test returned true
LookedUpLocs(shape) ==
    IF is_shape_within_borders(shape)
    THEN {get_mapped_locs(shape)[i] : i \in 1..4}
    ELSE {}

\* attempt_*: ok = the value returned, shape = current_shape afterwards
attempt_move(b, cur, x, y) ==
    IF is_position_legal(b, add_pos(cur, x, y))
    THEN [ok |-> TRUE, shape |-> add_pos(cur, x, y)]
    ELSE [ok |-> FALSE, shape |-> cur]

attempt_rotate_cw(b, cur) ==
    IF is_position_legal(b, rotate_cw(cur))
    THEN [ok |-> TRUE, shape |-> rotate_cw(cur)]
    ELSE [ok |-> FALSE, shape |-> cur]

attempt_rotate_ccw(b, cur) ==
    IF is_position_legal(b, rotate_ccw(cur))
    THEN [ok |-> TRUE, shape |-> rotate_ccw(cur)]
    ELSE [ok |-> FALSE, shape |-> cur]

\* the legality check of temp overflows on the way: a build that checks
\* overflow aborts there, any other build goes on with the wrapped value
CheckUnderflows(temp) == MappedLocsUnderflow(temp)

\* a drop that descends one step only
drop_once(b, cur, at) ==
    [shape |-> attempt_move(b, cur, 0, 1).shape,
     at |-> IF at = << >> /\ CheckUnderflows(add_pos(cur, 0, 1))
            THEN <<cur>> ELSE at]

\* while self.attempt_move(0, 1) {}: shape = the shape when the loop ends,
\* at = <<the shape at the first overflowing legality check>>, or <<>>
RECURSIVE drop(_, _, _)
drop(b, cur, at) ==
    IF attempt_move(b, cur, 0, 1).ok
    THEN drop(b, add_pos(cur, 0, 1),
              IF at = << >> /\ CheckUnderflows(add_pos(cur, 0, 1))
              THEN <<cur>> ELSE at)
    ELSE [shape |-> cur,
          at |-> IF at = << >> /\ CheckUnderflows(add_pos(cur, 0, 1))
                 THEN <<cur>> ELSE at]

spawn_next_shape(nxt) == set_pos(nxt, get_spawn_loc[1], get_spawn_loc[2])

\* a draw that is put on the spawn instead of the preview position
pick_next_shape_spawn(rand_num) ==
    set_pos(new_random(rand_num), get_spawn_loc[1], get_spawn_loc[2])

pick_next_shape(rand_num) ==
    set_pos(new_random(rand_num), NEXT_SHAPE_OFFSET[1], NEXT_SHAPE_OFFSET[2])

\* Game::new with the two draws of the generator
New(next_num, current_num) ==
    /\ score = 0
    /\ board = GameboardNew
    /\ next_shape = set_pos(new_random(next_num), 30, 7)
    /\ current_shape =
           set_pos(new_random(current_num), get_spawn_loc[1], get_spawn_loc[2])
    /\ seconds_since_tick = 0
    /\ shape_placed = FALSE
    /\ fault = "none"
    /\ ret = FALSE
    /\ game_over = FALSE
    /\ pieces = 0
    /\ ticks = 0
    /\ placed_by = "none"
    /\ vertices = << >>

\* KeyboardInput.virtual_keycode ("None" = no keycode, "Escape" = a key the
\* engine does not recognise) and KeyboardInput.state
Keys == {"None", "Left", "Right", "Down", "Z", "X", "Escape"}
ElementStates == {"Pressed", "Released"}

\* the process aborts: nothing returns, the engine state stays as it is
Abort(kind) ==
    /\ fault' = kind
    /\ UNCHANGED <<score, next_shape, shape_placed, ret, game_over, pieces,
                   ticks, placed_by>>

\* a move or rotation key with the candidate temp and the outcome m of its
\* attempt
InputAttempt(temp, m) ==
    \/ /\ CheckUnderflows(temp)
       /\ Abort("overflow")
       /\ UNCHANGED <<board, current_shape, seconds_since_tick>>
    \/ /\ current_shape' = m.shape
       /\ ret' = TRUE
       /\ UNCHANGED <<score, board, next_shape, seconds_since_tick,
                      shape_placed, fault, game_over, pieces, ticks,
                      placed_by>>

\* the Down key: drop, lock_to_gameboard, shape_placed = true
InputDown ==
    LET d  == drop(board, current_shape, << >>)
        lk == lock_to_gameboard(d.shape, board)
    IN  \/ /\ d.at # << >>
           /\ Abort("overflow")
           /\ current_shape' = d.at[1]
           /\ UNCHANGED <<board, seconds_since_tick>>
        \/ /\ ~lk.ok
           /\ Abort("unwrap")
           /\ current_shape' = d.shape
           /\ board' = lk.board
           /\ UNCHANGED seconds_since_tick
        \/ /\ lk.ok
           /\ current_shape' = d.shape
           /\ board' = lk.board
           /\ shape_placed' = TRUE
           /\ placed_by' = IF shape_placed THEN placed_by ELSE "key"
           /\ ret' = TRUE
           /\ UNCHANGED <<score, next_shape, seconds_since_tick, fault,
                          game_over, pieces, ticks>>

\* a call that matches no handled arm
InputIgnored ==
    /\ ret' = FALSE
    /\ UNCHANGED <<score, board, next_shape, current_shape,
                   seconds_since_tick, shape_placed, fault, game_over,
                   pieces, ticks, placed_by>>

ProcessInput(key, state) ==
    /\ fault = "none"
    /\ IF key # "None" /\ state = "Pressed"
       THEN CASE key = "Left" ->
                    InputAttempt(add_pos(current_shape, -1, 0),
                                 attempt_move(board, current_shape, -1, 0))
              [] key = "Right" ->
                    InputAttempt(add_pos(current_shape, 1, 0),
                                 attempt_move(board, current_shape, 1, 0))
              [] key = "Down" -> InputDown
              [] key = "Z" ->
                    InputAttempt(rotate_ccw(current_shape),
                                 attempt_rotate_ccw(board, current_shape))
              [] key = "X" ->
                    InputAttempt(rotate_cw(current_shape),
                                 attempt_rotate_cw(board, current_shape))
              [] OTHER -> InputIgnored
       ELSE InputIgnored

\* a gravity step of two rows
tick_two(b, cur) ==
    LET m  == attempt_move(b, cur, 0, 2)
        lk == lock_to_gameboard(cur, b)
    IN  IF m.ok
        THEN [underflow |-> CheckUnderflows(add_pos(cur, 0, 2)),
              shape |-> m.shape, board |-> b,
              locked |-> FALSE, lockok |-> TRUE]
        ELSE [underflow |-> CheckUnderflows(add_pos(cur, 0, 2)),
              shape |-> cur, board |-> lk.board,
              locked |-> lk.ok, lockok |-> lk.ok]

\* tick(): outcome of the gravity step on (board, current_shape)
tick(b, cur) ==
    LET m  == attempt_move(b, cur, 0, 1)
        lk == lock_to_gameboard(cur, b)
    IN  IF m.ok
        THEN [underflow |-> CheckUnderflows(add_pos(cur, 0, 1)),
              shape |-> m.shape, board |-> b,
              locked |-> FALSE, lockok |-> TRUE]
        ELSE [underflow |-> CheckUnderflows(add_pos(cur, 0, 1)),
              shape |-> cur, board |-> lk.board,
              locked |-> lk.ok, lockok |-> lk.ok]

\* an update that performs no tick
NoTick(b, cur) ==
    [underflow |-> FALSE, shape |-> cur, board |-> b, locked |-> FALSE,
     lockok |-> TRUE]

\* if self.seconds_since_tick > self.seconds_per_tick
TickDue(acc) == acc > SECONDS_PER_TICK

\* an accumulator that starts over after a tick
AccAfterTick_reset(acc) == 0

\* self.seconds_since_tick -= self.seconds_per_tick
AccAfterTick(acc) == acc - SECONDS_PER_TICK

\* a flag that every tick writes: set by a lock, cleared otherwise
PlacedAfterTick_cleared(placed, locked) == locked

\* self.shape_placed once tick() is through
PlacedAfterTick(placed, locked) == placed \/ locked

\* a loop that reads the flag as it was when the call began
ResolveDue_deferred(placed_before, placed_now) == placed_before

\* `if self.shape_placed` comes after the tick and reads the flag as the
\* tick left it
ResolveDue(placed_before, placed_now) == placed_now

\* a score that counts a resolution, not its rows
ScoreAfter_flat(old, rows_complete) ==
    IF rows_complete > 0 THEN old + SCORE_PER_ROW ELSE old

\* self.set_score(self.score + 400 * rows_complete)
ScoreAfter(old, rows_complete) == old + SCORE_PER_ROW * rows_complete

Saturate(n, max) == IF n < max THEN n + 1 ELSE n

\* a resolution that clears the rows before it tests the spawn
SpawnTestBoard_cleared(b) == remove_completed_rows(b).board

\* the board spawn_next_shape tests the new current piece against: the
\* board as the lock left it, remove_completed_rows comes later
SpawnTestBoard(b) == b

\* a resolution that counts the complete rows and leaves them in the board
Resolve_counted(rm) ==
    /\ board' = board
    /\ score' = ScoreAfter(score, rm.count)

\* let rows_complete = self.board.remove_completed_rows(); set_score(..)
Resolve(rm) ==
    /\ board' = rm.board
    /\ score' = ScoreAfter(score, rm.count)

\* the rest of process_game_loop once the tick outcome t is known: acc1 and
\* acc2 are the accumulator before and after the tick's subtraction
GameLoopBody(rand_num, due, acc1, acc2, t, placed1, resolve, spawned) ==
    \/ \* overflow abort inside tick's attempt_move
       /\ t.underflow
       /\ Abort("overflow")
       /\ seconds_since_tick' = acc1
       /\ UNCHANGED <<board, current_shape>>
    \/ \* unwrap abort inside tick's lock_to_gameboard
       /\ ~t.lockok
       /\ Abort("unwrap")
       /\ seconds_since_tick' = acc1
       /\ board' = t.board
       /\ UNCHANGED current_shape
    \/ \* no placement to resolve
       /\ t.lockok /\ ~resolve
       /\ seconds_since_tick' = acc2
       /\ board' = t.board
       /\ current_shape' = t.shape
       /\ shape_placed' = placed1
       /\ ticks' = IF due THEN Saturate(ticks, MaxTicks) ELSE ticks
       /\ placed_by' = IF t.locked /\ ~shape_placed THEN "tick" ELSE placed_by
       /\ ret' = FALSE
       /\ UNCHANGED <<score, next_shape, fault, game_over, pieces>>
    \/ /\ t.lockok /\ resolve
       /\ seconds_since_tick' = acc2
       /\ current_shape' = spawned
       /\ ticks' = IF due THEN Saturate(ticks, MaxTicks) ELSE ticks
       /\ placed_by' = IF t.locked /\ ~shape_placed THEN "tick" ELSE placed_by
       /\ \/ \* overflow abort inside spawn_next_shape's legality check
             /\ CheckUnderflows(spawned)
             /\ fault' = "overflow"
             /\ board' = t.board
             /\ shape_placed' = placed1
             /\ UNCHANGED <<score, next_shape, ret, game_over, pieces>>
          \/ \* spawn blocked: game over, return true
             /\ ~is_position_legal(SpawnTestBoard(t.board), spawned)
             /\ board' = t.board
             /\ shape_placed' = placed1
             /\ ret' = TRUE
             /\ game_over' = TRUE
             /\ UNCHANGED <<score, next_shape, fault, pieces>>
          \/ \* post-placement resolution
             /\ is_position_legal(SpawnTestBoard(t.board), spawned)
             /\ next_shape' = pick_next_shape(rand_num)
             /\ \E rm \in {remove_completed_rows(t.board)} : Resolve(rm)
             /\ shape_placed' = FALSE
             /\ ret' = FALSE
             /\ pieces' = pieces + 1
             /\ UNCHANGED <<fault, game_over>>

\* an update whose due tick is never performed
TickOutcome_idle(due, b, cur) == NoTick(b, cur)

TickOutcome(due, b, cur) == IF due THEN tick(b, cur) ELSE NoTick(b, cur)

GameLoopTick(rand_num, due, acc1, t) ==
    GameLoopBody(rand_num, due, acc1,
                 IF due THEN AccAfterTick(acc1) ELSE acc1,
                 t, PlacedAfterTick(shape_placed, t.locked),
                 ResolveDue(shape_placed,
                            PlacedAfterTick(shape_placed, t.locked)),
                 spawn_next_shape(next_shape))

ProcessGameLoop(dt, rand_num) ==
    /\ fault = "none"
    /\ \E t \in {TickOutcome(TickDue(seconds_since_tick + dt),
                              board, current_shape)} :
           GameLoopTick(rand_num, TickDue(seconds_since_tick + dt),
                        seconds_since_tick + dt, t)

\* ------------------------------------------------------------ presentation
Vertex(px, py, pz, u, v, c) ==
    [position |-> <<px, py, pz>>, tex_coords |-> <<u, v>>, color |-> c]

\* the two triangles of the unit cell whose corner is at pixel (px, py)
Quad(px, py, c) ==
    << Vertex(px, py, 0, 0, 0, c),
       Vertex(px + BLOCK_SIZE, py, 0, 1, 0, c),
       Vertex(px + BLOCK_SIZE, py + BLOCK_SIZE, 0, 1, 1, c),
       Vertex(px + BLOCK_SIZE, py + BLOCK_SIZE, 0, 1, 1, c),
       Vertex(px, py + BLOCK_SIZE, 0, 0, 1, c),
       Vertex(px, py, 0, 0, 0, c) >>

as_blocks(t) ==
    << <<(t.block_locs[1][1] + t.x) * BLOCK_SIZE,
         (t.block_locs[1][2] + t.y) * BLOCK_SIZE>>,
       <<(t.block_locs[2][1] + t.x) * BLOCK_SIZE,
         (t.block_locs[2][2] + t.y) * BLOCK_SIZE>>,
       <<(t.block_locs[3][1] + t.x) * BLOCK_SIZE,
         (t.block_locs[3][2] + t.y) * BLOCK_SIZE>>,
       <<(t.block_locs[4][1] + t.x) * BLOCK_SIZE,
         (t.block_locs[4][2] + t.y) * BLOCK_SIZE>> >>

\* a quad of four corner vertices instead of two triangles
QuadCorners(px, py, c) ==
    << Vertex(px, py, 0, 0, 0, c),
       Vertex(px + BLOCK_SIZE, py, 0, 1, 0, c),
       Vertex(px + BLOCK_SIZE, py + BLOCK_SIZE, 0, 1, 1, c),
       Vertex(px, py + BLOCK_SIZE, 0, 0, 1, c) >>

as_vertices_corners(t) ==
    QuadCorners(as_blocks(t)[1][1], as_blocks(t)[1][2], t.color)
    \o QuadCorners(as_blocks(t)[2][1], as_blocks(t)[2][2], t.color)
    \o QuadCorners(as_blocks(t)[3][1], as_blocks(t)[3][2], t.color)
    \o QuadCorners(as_blocks(t)[4][1], as_blocks(t)[4][2], t.color)

\* Tetromino::as_vertices: six vertices for each of the four blocks
as_vertices(t) ==
    Quad(as_blocks(t)[1][1], as_blocks(t)[1][2], t.color)
    \o Quad(as_blocks(t)[2][1], as_blocks(t)[2][2], t.color)
    \o Quad(as_blocks(t)[3][1], as_blocks(t)[3][2], t.color)
    \o Quad(as_blocks(t)[4][1], as_blocks(t)[4][2], t.color)

\* the colour a board cell is drawn with: "none" is the empty cell
CellColor(b, x, y) == IF IsSome(b, x, y) THEN b[<<x, y>>] ELSE "none"

\* the quad of the grid cell (x, y)
BoardQuad(b, x, y) ==
    Quad((x + GAMEBOARD_OFFSET[1]) * BLOCK_SIZE,
         (y + GAMEBOARD_OFFSET[2]) * BLOCK_SIZE, CellColor(b, x, y))

\* Gameboard::as_vertices: one quad for every cell of the grid, row by row
BoardAsVertices(b) ==
    [k \in 1..(6 * GAMEBOARD_WIDTH * GAMEBOARD_HEIGHT) |->
        BoardQuad(b, ((k - 1) \div 6) % GAMEBOARD_WIDTH,
                  ((k - 1) \div 6) \div GAMEBOARD_WIDTH)[((k - 1) % 6) + 1]]

render_background ==
    << Vertex(BLOCK_SIZE * GAMEBOARD_OFFSET[1],
              BLOCK_SIZE * GAMEBOARD_OFFSET[2], -1, 0, 0, "tint"),
       Vertex(BLOCK_SIZE * GAMEBOARD_OFFSET[1] + BLOCK_SIZE * GAMEBOARD_WIDTH,
              BLOCK_SIZE * GAMEBOARD_OFFSET[2], -1, GAMEBOARD_WIDTH, 0, "tint"),
       Vertex(BLOCK_SIZE * GAMEBOARD_OFFSET[1] + BLOCK_SIZE * GAMEBOARD_WIDTH,
              BLOCK_SIZE * GAMEBOARD_OFFSET[2] + BLOCK_SIZE * GAMEBOARD_HEIGHT,
              -1, GAMEBOARD_WIDTH, GAMEBOARD_HEIGHT, "tint"),
       Vertex(BLOCK_SIZE * GAMEBOARD_OFFSET[1] + BLOCK_SIZE * GAMEBOARD_WIDTH,
              BLOCK_SIZE * GAMEBOARD_OFFSET[2] + BLOCK_SIZE * GAMEBOARD_HEIGHT,
              -1, GAMEBOARD_WIDTH, GAMEBOARD_HEIGHT, "tint"),
       Vertex(BLOCK_SIZE * GAMEBOARD_OFFSET[1],
              BLOCK_SIZE * GAMEBOARD_OFFSET[2] + BLOCK_SIZE * GAMEBOARD_HEIGHT,
              -1, 0, GAMEBOARD_HEIGHT, "tint"),
       Vertex(BLOCK_SIZE * GAMEBOARD_OFFSET[1],
              BLOCK_SIZE * GAMEBOARD_OFFSET[2], -1, 0, 0, "tint") >>

\* render(): background, board, current piece, next piece
render(b, cur, nxt) ==
    render_background \o BoardAsVertices(b) \o as_vertices(cur)
    \o as_vertices(nxt)

\* ------------------------------------------------------------ specifications
\* elapsed time between two update calls: one or two tick intervals
Elapsed == {SECONDS_PER_TICK, 2 * SECONDS_PER_TICK}

\* Spec: the play of the first piece.  Every key event and every update up
\* to the first lock, then every key event but a second Down; at most
\* MaxTicks ticks.  The first draw (the next piece) is fixed, the second
\* (the current piece) is any of the seven shapes.
FirstNextNums == {2}

Init == \E next_num \in FirstNextNums, current_num \in RandNums :
            New(next_num, current_num)

Input ==
    \E key \in Keys, state \in ElementStates :
        /\ (key = "Down" /\ state = "Pressed") => ~shape_placed
        /\ ProcessInput(key, state)
        /\ UNCHANGED vertices

Update ==
    \E dt \in Elapsed, rand_num \in RandNums :
        /\ ~shape_placed
        /\ seconds_since_tick + dt <= MaxAcc
        /\ TickDue(seconds_since_tick + dt) => ticks < MaxTicks
        /\ ProcessGameLoop(dt, rand_num)
        /\ pieces' = pieces
        /\ UNCHANGED vertices

Next == Input \/ Update

Spec == Init /\ [][Next]_vars

\* SpecFall: O and I pieces fall in the spawn columns, by gravity or by the
\* Down key, until the spawn is blocked, and the calls made after that.  The
\* updates come one tick interval apart.
FallNums == {1, 2}

InitFall == \E next_num \in FallNums, current_num \in FallNums :
                New(next_num, current_num)

FallInput ==
    \E key \in {"Down", "Escape"}, state \in ElementStates :
        ProcessInput(key, state) /\ UNCHANGED vertices

FallUpdate ==
    \E rand_num \in FallNums :
        ProcessGameLoop(SECONDS_PER_TICK, rand_num) /\ UNCHANGED vertices

NextFall == FallInput \/ FallUpdate

SpecFall == InitFall /\ [][NextFall]_vars

\* SpecPaint: an I piece is moved sideways and dropped, again and again,
\* between two updates that come faster than the clock resolves; the play
\* ends with the first post-placement resolution.
PaintNums == {2}

InitPaint == \E next_num \in PaintNums, current_num \in PaintNums :
                 New(next_num, current_num)

PaintInput ==
    \E key \in {"Left", "Right", "Down"} :
        /\ pieces = 0
        /\ ProcessInput(key, "Pressed")
        /\ UNCHANGED vertices

PaintUpdate ==
    \E rand_num \in PaintNums :
        /\ pieces = 0
        /\ ProcessGameLoop(0, rand_num)
        /\ UNCHANGED vertices

NextPaint == PaintInput \/ PaintUpdate

SpecPaint == InitPaint /\ [][NextPaint]_vars

\* SpecRows: the row clearing of a resolution applied to stacks of rows.
\* Each of the MaxStackRows rows above the floor is empty, complete, or
\* holds blocks at its left or right end; the blocks of a row carry the
\* colour of one shape, so that rows can be told apart after they moved.
StackRows == (GAMEBOARD_HEIGHT - MaxStackRows)..(GAMEBOARD_HEIGHT - 1)

RowPatterns == {"empty", "full", "left", "right"}

PatternCols(k) ==
    CASE k = "empty" -> {}
      [] k = "full" -> Cols
      [] k = "left" -> {0, 1, 2}
      [] k = "right" -> {GAMEBOARD_WIDTH - 1}

RowColor(y) == new_random(y % 7).color

StackBoard(f) ==
    [p \in UNION {{<<x, y>> : x \in PatternCols(f[y])} : y \in StackRows}
        |-> RowColor(p[2])]

InitRows ==
    \E f \in [StackRows -> RowPatterns] :
        /\ score = 0
        /\ board = StackBoard(f)
        /\ next_shape = set_pos(new_random(2), 30, 7)
        /\ current_shape =
               set_pos(new_random(1), get_spawn_loc[1], get_spawn_loc[2])
        /\ seconds_since_tick = 0
        /\ shape_placed = FALSE
        /\ fault = "none"
        /\ ret = FALSE
        /\ game_over = FALSE
        /\ pieces = 0
        /\ ticks = 0
        /\ placed_by = "none"
    /\ vertices = << >>

RowsClear ==
    /\ CompleteRows(board) # {}
    /\ Resolve(remove_completed_rows(board))
    /\ UNCHANGED <<next_shape, current_shape, seconds_since_tick,
                   shape_placed, fault, ret, game_over, pieces, ticks,
                   placed_by, vertices>>

NextRows == RowsClear

SpecRows == InitRows /\ [][NextRows]_vars

\* SpecFrame: an O or I piece and then I pieces fall in the spawn columns
\* until the spawn is blocked, with the frames of the play.  A redraw request runs update() and then
\* render(); key events come between two frames.
FrameNums == {2}

InitFrame == \E next_num \in FrameNums, current_num \in FallNums :
                 New(next_num, current_num)

FrameInput == FallInput

Redraw ==
    \E rand_num \in FrameNums :
        /\ ProcessGameLoop(SECONDS_PER_TICK, rand_num)
        /\ vertices' = IF fault' = "none"
                       THEN render(board', current_shape', next_shape')
                       ELSE vertices

NextFrame == FrameInput \/ Redraw

SpecFrame == InitFrame /\ [][NextFrame]_vars

\* SpecLock: lock_to_gameboard called on a piece of any shape put, with
\* set_pos, anywhere in the grid or up to MaxOutside cells outside it.
LockXs == (GAMEBOARD_OFFSET[1] - MaxOutside)..
              (GAMEBOARD_OFFSET[1] + GAMEBOARD_WIDTH - 1 + MaxOutside)

LockYs == (GAMEBOARD_OFFSET[2] - MaxOutside)..
              (GAMEBOARD_OFFSET[2] + GAMEBOARD_HEIGHT - 1 + MaxOutside)

InitLock ==
    \E n \in RandNums, x \in LockXs, y \in LockYs :
        /\ score = 0
        /\ board = GameboardNew
        /\ next_shape = set_pos(new_random(2), 30, 7)
        /\ current_shape = set_pos(new_random(n), x, y)
        /\ seconds_since_tick = 0
        /\ shape_placed = FALSE
        /\ fault = "none"
        /\ ret = FALSE
        /\ game_over = FALSE
        /\ pieces = 0
        /\ ticks = 0
        /\ placed_by = "none"
        /\ vertices = << >>

\* self.current_shape.lock_to_gameboard(&mut self.board): the unwrap aborts
\* at the first set_content that fails
LockPiece ==
    /\ fault = "none"
    /\ board' = lock_to_gameboard(current_shape, board).board
    /\ fault' = IF lock_to_gameboard(current_shape, board).ok
                THEN "none" ELSE "unwrap"
    /\ UNCHANGED <<score, next_shape, current_shape, seconds_since_tick,
                   shape_placed, ret, game_over, pieces, ticks, placed_by,
                   vertices>>

NextLock == LockPiece

SpecLock == InitLock /\ [][NextLock]_vars

\* SpecTop: I pieces fall in the spawn column of a board whose 4 top rows
\* are empty or filled but for that column, over a pillar of locked I
\* pieces in the column; a piece that locks in the top rows completes them
\* and blocks the spawn.
TopRows == 0..3

PillarHeights == {0, 4, 8, 12, 16}

SpawnCol == get_spawn_loc[1] - GAMEBOARD_OFFSET[1]

TopBoard(f, h) ==
    [p \in {<<x, y>> \in Cols \X Rows :
               \/ y \in TopRows /\ f[y] /\ x # SpawnCol
               \/ x = SpawnCol /\ y >= GAMEBOARD_HEIGHT - h}
        |-> IF p[1] = SpawnCol THEN new_i.color ELSE RowColor(p[2])]

InitTop ==
    \E f \in [TopRows -> BOOLEAN], h \in PillarHeights :
        /\ score = 0
        /\ board = TopBoard(f, h)
        /\ next_shape = set_pos(new_random(2), 30, 7)
        /\ current_shape =
               set_pos(new_random(2), get_spawn_loc[1], get_spawn_loc[2])
        /\ seconds_since_tick = 0
        /\ shape_placed = FALSE
        /\ fault = "none"
        /\ ret = FALSE
        /\ game_over = FALSE
        /\ pieces = 0
        /\ ticks = 0
        /\ placed_by = "none"
        /\ vertices = << >>

TopInput ==
    /\ ~game_over
    /\ ProcessInput("Down", "Pressed")
    /\ UNCHANGED vertices

TopUpdate ==
    /\ ~game_over
    /\ ProcessGameLoop(SECONDS_PER_TICK, 2)
    /\ UNCHANGED vertices

NextTop == TopInput \/ TopUpdate

SpecTop == InitTop /\ [][NextTop]_vars

\* A stack with an overhang next to the spawn position: a Z piece lies
\* locked in rows 0 and 1 on top of a pillar in column 8, its left block
\* over the empty cell (6,1); the lowest rows are full but for a gap two
\* columns wide.  O pieces fall, the keys steer them.
ShiftNums == {1}

GapCols == {0, 3}

GapRows == 0..2

HangCells == { <<6, 0>>, <<7, 0>>, <<7, 1>>, <<8, 1>> }

HangBoard(hang, gap, n) ==
    [p \in {<<x, y>> \in Cols \X Rows :
               \/ hang /\ <<x, y>> \in HangCells
               \/ x = 8 /\ y >= 2
               \/ y >= GAMEBOARD_HEIGHT - n /\ x \notin {gap, gap + 1}}
        |-> IF p \in HangCells THEN new_z.color ELSE RowColor(p[2])]

InitShift ==
    \E hang \in BOOLEAN, gap \in GapCols, n \in GapRows :
        /\ score = 0
        /\ board = HangBoard(hang, gap, n)
        /\ next_shape = set_pos(new_random(1), 30, 7)
        /\ current_shape =
               set_pos(new_random(1), get_spawn_loc[1], get_spawn_loc[2])
        /\ seconds_since_tick = 0
        /\ shape_placed = FALSE
        /\ fault = "none"
        /\ ret = FALSE
        /\ game_over = FALSE
        /\ pieces = 0
        /\ ticks = 0
        /\ placed_by = "none"
        /\ vertices = << >>

ShiftInput ==
    /\ ~shape_placed
    /\ \E key \in {"Left", "Right", "Down"} : ProcessInput(key, "Pressed")
    /\ UNCHANGED vertices

ShiftUpdate ==
    /\ pieces < MaxShiftPieces
    /\ \E rand_num \in ShiftNums :
           ProcessGameLoop(SECONDS_PER_TICK, rand_num)
    /\ UNCHANGED vertices

NextShift == ShiftInput \/ ShiftUpdate

SpecShift == InitShift /\ [][NextShift]_vars

\* The end of a game and what follows it: the spawn column is stacked up to
\* row 4, the I piece that spawns on the stack locks where it is and blocks
\* the next spawn.  Until then Down is the only key; after game over every
\* key is pressed and the updates go on, until the locks made after game
\* over have filled MaxOverLocks more pieces into the board.
OverNums == {1, 2}

OverBoard == TopBoard([y \in TopRows |-> FALSE], 16)

OverCells == Cardinality(DOMAIN OverBoard) + 4 + 4 * MaxOverLocks

InitOver ==
    \E next_num \in OverNums :
        /\ score = 0
        /\ board = OverBoard
        /\ next_shape = set_pos(new_random(next_num), 30, 7)
        /\ current_shape =
               set_pos(new_random(2), get_spawn_loc[1], get_spawn_loc[2])
        /\ seconds_since_tick = 0
        /\ shape_placed = FALSE
        /\ fault = "none"
        /\ ret = FALSE
        /\ game_over = FALSE
        /\ pieces = 0
        /\ ticks = 0
        /\ placed_by = "none"
        /\ vertices = << >>

OverInput ==
    /\ Cardinality(DOMAIN board) < OverCells
    /\ \E key \in {"Left", "Right", "Down", "Z", "X"} :
           /\ game_over \/ key = "Down"
           /\ ProcessInput(key, "Pressed")
    /\ UNCHANGED vertices

OverUpdate ==
    /\ Cardinality(DOMAIN board) < OverCells
    /\ \E rand_num \in OverNums :
           ProcessGameLoop(SECONDS_PER_TICK, rand_num)
    /\ UNCHANGED vertices

NextOver == OverInput \/ OverUpdate

SpecOver == InitOver /\ [][NextOver]_vars

\* A game nobody plays: no key event comes, every update is one tick period
\* after the last, every draw is any of the 7 shapes.  The games start on a
\* stack that pieces left to fall from the spawn have made: I pieces, a
\* pillar in the spawn column, and O pieces on top of them; the event loop
\* requests a redraw whenever its events are cleared, so the update is taken
\* again and again.
StackHeights == {12, 16}

StackTops == 1..2

\* h rows of I pieces, and n O pieces on them when they leave 4 rows free
StackBoardOf(h, n) ==
    [p \in {<<x, y>> \in Cols \X Rows :
               \/ x = SpawnCol /\ y >= GAMEBOARD_HEIGHT - h
               \/ /\ x \in {SpawnCol, SpawnCol + 1}
                  /\ y >= GAMEBOARD_HEIGHT - h - 2 * n
                  /\ y < GAMEBOARD_HEIGHT - h
                  /\ GAMEBOARD_HEIGHT - h - 2 * n >= 4}
        |-> IF p[2] >= GAMEBOARD_HEIGHT - h
            THEN new_i.color ELSE new_o.color]

InitStack ==
    \E next_num \in RandNums, current_num \in RandNums,
       h \in StackHeights, n \in StackTops :
        /\ score = 0
        /\ board = StackBoardOf(h, n)
        /\ next_shape = set_pos(new_random(next_num), 30, 7)
        /\ current_shape =
               set_pos(new_random(current_num),
                       get_spawn_loc[1], get_spawn_loc[2])
        /\ seconds_since_tick = 0
        /\ shape_placed = FALSE
        /\ fault = "none"
        /\ ret = FALSE
        /\ game_over = FALSE
        /\ pieces = 0
        /\ ticks = 0
        /\ placed_by = "none"
        /\ vertices = << >>

StackUpdate ==
    /\ \E rand_num \in RandNums :
           ProcessGameLoop(SECONDS_PER_TICK, rand_num)
    /\ UNCHANGED vertices

NextStack == StackUpdate

SpecStack == InitStack /\ [][NextStack]_vars

\* Event::MainEventsCleared => request_redraw(): the update is not put off
\* for ever
SpecStackFair == SpecStack /\ WF_vars(StackUpdate)

\* ------------------------------------------------------------------ claims
\* the board-local cell of block i of a piece, in plain integers
Cell(t, i) == << t.block_locs[i][1] + t.x - GAMEBOARD_OFFSET[1],
                 t.block_locs[i][2] + t.y - GAMEBOARD_OFFSET[2] >>

CellInGrid(p) == p[1] \in Cols /\ p[2] \in Rows

\* every cell of the piece is in the grid and empty in b
CellsLegal(b, t) ==
    \A i \in 1..4 : CellInGrid(Cell(t, i)) /\ Cell(t, i) \notin DOMAIN b

\* the candidates the engine checks for the keys and for gravity
Candidates(t) ==
    { add_pos(t, -1, 0), add_pos(t, 1, 0), add_pos(t, 0, 1),
      rotate_cw(t), rotate_ccw(t) }

\* the candidate a move or rotation key makes of the current piece
Candidate(key, t) ==
    CASE key = "Left" -> add_pos(t, -1, 0)
      [] key = "Right" -> add_pos(t, 1, 0)
      [] key = "Z" -> rotate_ccw(t)
      [] key = "X" -> rotate_cw(t)

\* the tick of an update that comes dt after the last one locks the piece
TickLocks(dt) ==
    /\ TickDue(seconds_since_tick + dt)
    /\ ~attempt_move(board, current_shape, 0, 1).ok

\* occupied cells of a board
Occupied(b) == Cardinality(DOMAIN b)

\* C1: once an update has returned true (game over), no later update and no
\* later key press changes any cell of the board.
C1_BoardFrozenAfterGameOver == [][game_over => board' = board]_vars

\* the step is an update call that comes dt after the last one
UpdateStep(dt) ==
    /\ ret' = FALSE \/ game_over' \/ fault' # "none"
    /\ \E r \in RandNums :
           /\ next_shape' = next_shape \/ next_shape' = pick_next_shape(r)
           /\ ProcessGameLoop(dt, r)

\* the step is a press of the Down key
DownStep ==
    /\ fault' # "none" \/ (ret' = TRUE /\ shape_placed')
    /\ ProcessInput("Down", "Pressed")

\* the pieces the generator can draw, at the preview position
PreviewShapes == {pick_next_shape(r) : r \in RandNums}

\* C2 (as claimed): an update whose tick locks the current piece and sets
\* the placed flag performs none of the consequences itself: the piece stays
\* current, the next piece and the score stay, nothing is resolved.
C2_ConsequencesDeferred ==
    [][\A dt \in Elapsed :
          (~shape_placed /\ TickLocks(dt) /\ UpdateStep(dt))
          => /\ shape_placed'
             /\ current_shape' = current_shape
             /\ next_shape' = next_shape
             /\ score' = score
             /\ pieces' = pieces]_vars

\* C2 (amended): an update whose tick locks the current piece resolves the
\* placement in that same call: the next piece is spawned as current, and
\* either the spawn is blocked and the call returns true, or a new next
\* piece is drawn, the complete rows are removed, the score is added and the
\* flag is reset.  A lock made by the Down key performs no consequence in
\* the key handler; the next update call spawns the next piece.
C2_ConsequencesInSameUpdate ==
    [][/\ \A dt \in Elapsed :
             (~shape_placed /\ TickLocks(dt) /\ UpdateStep(dt))
             => /\ current_shape' = spawn_next_shape(next_shape)
                /\ \/ ret' = TRUE /\ shape_placed' /\ pieces' = pieces
                      /\ score' = score /\ next_shape' = next_shape
                   \/ /\ ret' = FALSE /\ ~shape_placed'
                      /\ pieces' = pieces + 1
                      /\ next_shape' \in PreviewShapes
                      /\ 10 * (score' - score) = SCORE_PER_ROW *
                            (Occupied(lock_to_gameboard(current_shape,
                                                        board).board)
                             - Occupied(board'))
       /\ DownStep
             => /\ shape_placed' /\ pieces' = pieces /\ score' = score
                /\ next_shape' = next_shape
                /\ current_shape'.color = current_shape.color
       /\ \A dt \in Elapsed :
             (shape_placed /\ UpdateStep(dt))
             => current_shape' = spawn_next_shape(next_shape)]_vars

\* C2 witness: a placement made by a tick has been resolved
C2_Witness ==
    /\ placed_by = "tick" /\ ~shape_placed /\ pieces >= 1 /\ fault = "none"
    /\ current_shape.x = get_spawn_loc[1] /\ current_shape.y = get_spawn_loc[2]

\* C3: a move or rotation key either gives the current piece exactly the
\* transform (when the transformed piece is legal) or returns leaving the
\* current piece, the board, the next piece, the score and the placed flag
\* unchanged.
C3_AllOrNothing ==
    [][\A key \in {"Left", "Right", "Z", "X"} :
          ProcessInput(key, "Pressed")
          => /\ fault' = "none"
             /\ current_shape' =
                    IF CellsLegal(board, Candidate(key, current_shape))
                    THEN Candidate(key, current_shape) ELSE current_shape
             /\ UNCHANGED <<board, next_shape, score, shape_placed>>]_vars

\* C4: is_position_legal returns, for the current piece and for every
\* candidate made of it, true exactly when the 4 board-local cells are in
\* the grid and empty; a piece left of column 0 or above row 0 is reported
\* illegal.
C4_LegalIffCellsFree ==
    \A t \in Candidates(current_shape) \cup {current_shape} :
        /\ ~MappedLocsUnderflow(t)
        /\ is_position_legal(board, t) <=> CellsLegal(board, t)

\* C5: no candidate the engine checks makes the unsigned subtraction of
\* get_mapped_locs underflow, and no call ends in an arithmetic fault.
C5_NoUnderflow ==
    /\ fault # "overflow"
    /\ \A t \in Candidates(current_shape) : ~MappedLocsUnderflow(t)

\* the effect of exactly one gravity step on the current piece
OneTickEffect ==
    IF CellsLegal(board, add_pos(current_shape, 0, 1))
    THEN current_shape' = add_pos(current_shape, 0, 1) /\ board' = board
    ELSE \A i \in 1..4 : Cell(current_shape, i) \in DOMAIN board'

\* C6: an update call performs a tick exactly when the accumulated time plus
\* the elapsed sample strictly exceeds the tick interval; it then performs
\* one gravity step and subtracts exactly one interval from the accumulator
\* (the remainder is kept), also when two or more intervals have accumulated;
\* otherwise it keeps the whole sum and moves nothing.
C6_AtMostOneTick ==
    [][\A dt \in Elapsed :
          (~shape_placed /\ fault' = "none" /\ UpdateStep(dt))
          => IF seconds_since_tick + dt > SECONDS_PER_TICK
             THEN /\ seconds_since_tick' =
                         seconds_since_tick + dt - SECONDS_PER_TICK
                  /\ OneTickEffect
             ELSE /\ seconds_since_tick' = seconds_since_tick + dt
                  /\ current_shape' = current_shape
                  /\ board' = board]_vars

\* C6 witness: two intervals were left in the accumulator after a call that
\* moved the piece down by one row only
C6_Witness ==
    /\ seconds_since_tick = 2 * SECONDS_PER_TICK
    /\ ticks = 1 /\ ~shape_placed /\ fault = "none"
    /\ current_shape.y = get_spawn_loc[2] + 1

\* the board a resolution starts from, in an update that comes dt after the
\* last one: the tick, when it locks, has written the piece
BoardAtResolution(dt) ==
    IF TickLocks(dt) THEN lock_to_gameboard(current_shape, board).board
    ELSE board

\* the elapsed samples of all the specifications
AnyElapsed == Elapsed \cup {0}

\* C7: the score never decreases; a post-placement resolution that does not
\* end the game adds exactly 400 times the number of rows it removes (each
\* removed row takes GAMEBOARD_WIDTH cells off the board), and no other step
\* changes the score.
C7_ScoreAddsPerRow ==
    [][/\ score' >= score
       /\ pieces' = pieces => score' = score
       /\ \A dt \in AnyElapsed :
             (pieces' = pieces + 1 /\ UpdateStep(dt))
             => GAMEBOARD_WIDTH * (score' - score) =
                    SCORE_PER_ROW * (Occupied(BoardAtResolution(dt))
                                     - Occupied(board'))]_vars

\* C7 witness: one resolution has removed four rows at once
C7_Witness ==
    /\ pieces = 1 /\ score = 4 * SCORE_PER_ROW /\ fault = "none"
    /\ ~shape_placed /\ board = GameboardNew

\* the cells of a piece, board-local
Cells(t) == {Cell(t, i) : i \in 1..4}

\* C8: a pressed Down key moves the current piece straight down, through
\* legal one-step descents only, to the position whose next descent is
\* illegal; the column, the offsets and the colour stay; its 4 cells are
\* then written into the board, nothing else of the board changes, the
\* placed flag is set and the call returns without a fault.
C8_HardDrop ==
    [][DownStep
       => /\ fault' = "none"
          /\ current_shape'.y >= current_shape.y
          /\ current_shape' =
                 add_pos(current_shape, 0, current_shape'.y - current_shape.y)
          /\ \A k \in 1..(current_shape'.y - current_shape.y) :
                 CellsLegal(board, add_pos(current_shape, 0, k))
          /\ ~CellsLegal(board, add_pos(current_shape', 0, 1))
          /\ DOMAIN board' = DOMAIN board \cup Cells(current_shape')
          /\ \A p \in DOMAIN board' :
                 board'[p] = IF p \in Cells(current_shape')
                             THEN current_shape.color ELSE board[p]
          /\ shape_placed'
          /\ ret' = TRUE]_vars

\* C8 witness: a piece turned on its side has been dropped from the spawn
\* row and lies on the floor, written into the board
C8_Witness ==
    /\ shape_placed /\ placed_by = "key" /\ fault = "none"
    /\ current_shape.block_locs # new_random(5).block_locs
    /\ current_shape.color = new_random(5).color
    /\ current_shape.y > get_spawn_loc[2] + 1
    /\ \E i \in 1..4 : Cell(current_shape, i)[2] = GAMEBOARD_HEIGHT - 1
    /\ Cells(current_shape) = DOMAIN board

\* the keys process_input handles
HandledKeys == {"Left", "Right", "Down", "Z", "X"}

\* C9: process_input returns false and changes no engine state when the key
\* is released, absent or not a handled key; it returns true for every
\* pressed handled key, also when the move or rotation is rejected.
C9_InputFrame ==
    [][\A key \in Keys, state \in ElementStates :
          ProcessInput(key, state)
          => IF state = "Pressed" /\ key \in HandledKeys
             THEN fault' = "none" /\ ret' = TRUE
             ELSE /\ fault' = "none" /\ ret' = FALSE
                  /\ UNCHANGED <<score, board, next_shape, current_shape,
                                 seconds_since_tick, shape_placed>>]_vars

\* C10: whenever the engine can lock the current piece, by the tick (the
\* piece cannot descend) or by the Down key (after the drop), before or
\* after game over, its 4 target cells are inside the grid; the board's set
\* operation never fails and lock_to_gameboard's unwrap never aborts.
C10_LockTargetsInGrid ==
    /\ fault # "unwrap"
    /\ \A i \in 1..4 :
           CellInGrid(Cell(drop(board, current_shape, << >>).shape, i))
    /\ ~CellsLegal(board, add_pos(current_shape, 0, 1))
           => \A i \in 1..4 : CellInGrid(Cell(current_shape, i))

\* C10 witness: after game over the piece on the blocked spawn has been
\* locked, all its 4 cells written
C10_Witness ==
    /\ game_over /\ fault = "none"
    /\ \A i \in 1..4 :
           /\ Cell(current_shape, i) \in DOMAIN board
           /\ board[Cell(current_shape, i)] = current_shape.color

\* the board without row y, the rows above it moved down by one
RemoveOneRow(b, y) ==
    [q \in {<<p[1], IF p[2] < y THEN p[2] + 1 ELSE p[2]>> :
               p \in {c \in DOMAIN b : c[2] # y}}
        |-> IF q[2] <= y THEN b[<<q[1], q[2] - 1>>] ELSE b[q]]

\* the fully occupied rows of a board
FullRows(b) == {y \in Rows : \A x \in Cols : <<x, y>> \in DOMAIN b}

\* the greatest element of a non-empty set of rows (the row nearest the floor)
Lowest(rows) == CHOOSE y \in rows : \A z \in rows : z <= y

\* the fully occupied rows removed one at a time, from the floor upwards
RECURSIVE ClearBottomUp(_)
ClearBottomUp(b) ==
    IF FullRows(b) = {} THEN b
    ELSE ClearBottomUp(RemoveOneRow(b, Lowest(FullRows(b))))

\* C11: clearing the completed rows in one pass returns the number of fully
\* occupied rows and leaves the board that removing them one at a time from
\* bottom to top leaves: every surviving cell is shifted down by the number
\* of removed rows below it, nothing else remains, the top rows are empty.
C11_OnePassIsBottomUp ==
    LET r == remove_completed_rows(board)
        full == FullRows(board)
    IN  /\ r.count = Cardinality(full)
        /\ r.board = ClearBottomUp(board)
        /\ \A p \in DOMAIN board :
               p[2] \notin full
               => LET q == <<p[1],
                             p[2] + Cardinality({y \in full : y > p[2]})>>
                  IN  q \in DOMAIN r.board /\ r.board[q] = board[p]
        /\ Occupied(r.board) =
               Occupied(board) - GAMEBOARD_WIDTH * Cardinality(full)
        /\ \A q \in DOMAIN r.board : q[2] >= Cardinality(full)

\* C11 witness: two complete rows that were not adjacent have been cleared;
\* the row between them has moved down by one, the row above both by two
C11_Witness ==
    /\ score = 2 * SCORE_PER_ROW
    /\ <<GAMEBOARD_WIDTH - 1, GAMEBOARD_HEIGHT - 1>> \in DOMAIN board
    /\ board[<<GAMEBOARD_WIDTH - 1, GAMEBOARD_HEIGHT - 1>>] =
           RowColor(GAMEBOARD_HEIGHT - 2)
    /\ <<0, GAMEBOARD_HEIGHT - 2>> \in DOMAIN board
    /\ board[<<0, GAMEBOARD_HEIGHT - 2>>] = RowColor(GAMEBOARD_HEIGHT - 4)

\* the vertices render() returns for a 10 x 20 board
VertexCount == 6 + 6 * GAMEBOARD_WIDTH * GAMEBOARD_HEIGHT + 24 + 24

\* vertex j of a quad lies on a corner of the unit cell at pixel (px, py)
OnCell(vx, px, py) ==
    /\ vx.position[1] \in {px, px + BLOCK_SIZE}
    /\ vx.position[2] \in {py, py + BLOCK_SIZE}
    /\ vx.position[3] = 0

\* the 24 vertices after index base draw the 4 blocks of piece t, in order
PieceDrawnAt(v, base, t) ==
    \A i \in 1..4 : \A j \in 1..6 :
        /\ v[base + 6 * (i - 1) + j].color = t.color
        /\ OnCell(v[base + 6 * (i - 1) + j],
                  BLOCK_SIZE * (t.x + t.block_locs[i][1]),
                  BLOCK_SIZE * (t.y + t.block_locs[i][2]))

\* the quads of the board section that carry a colour
ColouredQuads(v) ==
    {q \in 0..(GAMEBOARD_WIDTH * GAMEBOARD_HEIGHT - 1) :
        v[6 + 6 * q + 1].color # "none"}

\* vertices 7..1206 lie in the board's screen rectangle
BoardSection(v) ==
    \A k \in 7..(6 + 6 * GAMEBOARD_WIDTH * GAMEBOARD_HEIGHT) :
        /\ v[k].position[3] = 0
        /\ v[k].position[1] >= BLOCK_SIZE * GAMEBOARD_OFFSET[1]
        /\ v[k].position[1] <=
               BLOCK_SIZE * (GAMEBOARD_OFFSET[1] + GAMEBOARD_WIDTH)
        /\ v[k].position[2] >= BLOCK_SIZE * GAMEBOARD_OFFSET[2]
        /\ v[k].position[2] <=
               BLOCK_SIZE * (GAMEBOARD_OFFSET[2] + GAMEBOARD_HEIGHT)

\* C12: in every state, running or game over, render yields exactly
\* 6 + 6*10*20 + 24 + 24 = 1254 vertices: 6 of the background, 1200 of the
\* board, 24 of the current piece and 24 of the next piece, in this order;
\* the engine state of a frame is the one its update left.
C12_RenderLayout ==
    [][(fault' = "none" /\ Redraw)
       => /\ Len(vertices') = VertexCount
          /\ VertexCount = 1254
          /\ \A k \in 1..6 : /\ vertices'[k].color = "tint"
                             /\ vertices'[k].position[3] = -1
          /\ BoardSection(vertices')
          /\ Cardinality(ColouredQuads(vertices')) = Occupied(board')
          /\ PieceDrawnAt(vertices', VertexCount - 48, current_shape')
          /\ PieceDrawnAt(vertices', VertexCount - 24, next_shape')
          /\ UpdateStep(SECONDS_PER_TICK)]_vars

\* C12 witness: a frame has been rendered after game over, with the stack
\* of locked pieces and the piece on the blocked spawn
C12_Witness ==
    /\ game_over /\ fault = "none"
    /\ Len(vertices) = VertexCount
    /\ Occupied(board) >= 5 * 4
    /\ Cardinality(ColouredQuads(vertices)) = Occupied(board)
    /\ PieceDrawnAt(vertices, VertexCount - 48, current_shape)

\* t and u are at the same position and have the same colour
SamePlace(t, u) == t.x = u.x /\ t.y = u.y /\ t.color = u.color

\* C13: for each of the 7 shapes in every orientation, four rotate_cw
\* restore each of the 4 offsets in its slot, and so do four rotate_ccw;
\* the position and the colour are the same after every rotation.
C13_FourRotations ==
    \A t \in {current_shape, next_shape} :
        /\ rotate_cw(rotate_cw(rotate_cw(rotate_cw(t)))) = t
        /\ rotate_ccw(rotate_ccw(rotate_ccw(rotate_ccw(t)))) = t
        /\ SamePlace(rotate_cw(t), t)
        /\ SamePlace(rotate_ccw(t), t)

\* C13 witness: the L piece has been turned upside down by two rotations
C13_Witness ==
    /\ current_shape.color = "orange"
    /\ current_shape.block_locs = << <<0, -1>>, <<0, 0>>, <<0, 1>>, <<1, 1>> >>
    /\ ret = TRUE /\ fault = "none"

\* C14: locking a piece whose 4 cells are in bounds sets exactly these 4
\* board-local cells to the colour of the piece, so that they are reported
\* non-empty, and leaves every other cell of the board as it was.
C14_LockSetsFourCells ==
    LET lk == lock_to_gameboard(current_shape, board)
    IN  (\A i \in 1..4 : CellInGrid(Cell(current_shape, i)))
        => /\ lk.ok
           /\ \A i \in 1..4 :
                  /\ ~are_locs_empty(lk.board, <<Cell(current_shape, i)>>)
                  /\ lk.board[Cell(current_shape, i)] = current_shape.color
           /\ \A x \in Cols, y \in Rows :
                  <<x, y>> \notin Cells(current_shape)
                  => /\ IsSome(lk.board, x, y) <=> IsSome(board, x, y)
                     /\ IsSome(board, x, y)
                            => lk.board[<<x, y>>] = board[<<x, y>>]
           /\ DOMAIN lk.board = DOMAIN board \cup Cells(current_shape)

\* C14 witness: the T piece has been locked into the empty board, where its
\* 4 cells are now the only occupied ones
C14_Witness ==
    /\ shape_placed /\ fault = "none"
    /\ current_shape.color = "blue"
    /\ DOMAIN board = Cells(current_shape)
    /\ \A p \in DOMAIN board : board[p] = "blue"

\* the offset p turned by k quarter turns about (0, 0)
Turn(p, k) ==
    CASE k = 0 -> p
      [] k = 1 -> <<0 - p[2], p[1]>>
      [] k = 2 -> <<0 - p[1], 0 - p[2]>>
      [] k = 3 -> <<p[2], 0 - p[1]>>

\* t has the offsets of the table of shape n turned by k quarter turns, slot
\* by slot, and the colour of shape n
IsShape(t, n, k) ==
    /\ t.color = new_random(n).color
    /\ DOMAIN t.block_locs = 1..4
    /\ \A i \in 1..4 :
           t.block_locs[i] = Turn(new_random(n).block_locs[i], k)

\* C15: in every reachable state the current piece and the next piece have
\* exactly 4 offsets, those of one of the 7 tables turned by 0, 90, 180 or
\* 270 degrees about (0,0), and the colour paired with that shape.
C15_ShapeIdentity ==
    \A t \in {current_shape, next_shape} :
        \E n \in RandNums, k \in 0..3 : IsShape(t, n, k)

\* C15 witness: the S piece lies turned by a quarter turn after a rotation
\* key, the next piece in its table orientation
C15_Witness ==
    /\ ret = TRUE /\ fault = "none"
    /\ IsShape(current_shape, 3, 3)
    /\ current_shape.color = "red"
    /\ \E n \in RandNums : IsShape(next_shape, n, 0)

\* C16: from construction onward there is one current and one next piece,
\* and the next piece is at the preview position (30,7) in its table
\* orientation; no key event and no update moves or rotates it.
C16_NextAtPreview ==
    /\ next_shape.x = 30 /\ next_shape.y = 7
    /\ <<next_shape.x, next_shape.y>> = NEXT_SHAPE_OFFSET
    /\ \E n \in RandNums : IsShape(next_shape, n, 0)
    /\ \E n \in RandNums, k \in 0..3 : IsShape(current_shape, n, k)

\* C16 witness: the next piece has been replaced by two resolutions and the
\* play goes on
C16_Witness ==
    /\ pieces >= 2 /\ ~game_over /\ fault = "none"
    /\ next_shape.color # current_shape.color
    /\ board # GameboardNew

\* C17: locking is atomic and reports failure as an error outcome: when a
\* target cell of the piece is out of bounds (a negative board-local
\* coordinate included) the call returns an error, without a fault, and no
\* cell of the board has changed.
C17_LockAtomic ==
    [][((\E i \in 1..4 : ~CellInGrid(Cell(current_shape, i))) /\ LockPiece)
       => fault' = "none" /\ board' = board]_vars

\* the seven shapes
Shapes == {new_o, new_i, new_s, new_z, new_l, new_j, new_t}

\* C18: the selector maps the draws 0..6 onto the 7 shapes one-to-one: 0 to
\* T (the fallback arm), 1 to O, 2 to I, 3 to S, 4 to Z, 5 to L, 6 to J;
\* every shape, and every piece in play, is made by exactly one draw value.
C18_SelectorOneToOne ==
    /\ RandNums = 0..6
    /\ Cardinality(Shapes) = 7
    /\ new_random(0) = new_t /\ new_random(1) = new_o
    /\ new_random(2) = new_i /\ new_random(3) = new_s
    /\ new_random(4) = new_z /\ new_random(5) = new_l
    /\ new_random(6) = new_j
    /\ \A sh \in Shapes :
           Cardinality({n \in RandNums : new_random(n) = sh}) = 1
    /\ \A t \in {current_shape, next_shape} :
           Cardinality({n \in RandNums :
                           \E k \in 0..3 : IsShape(t, n, k)}) = 1

\* C18 witness: the game began with the T piece, made by the draw 0 through
\* the fallback arm, and the piece has been locked
C18_Witness ==
    /\ current_shape.color = new_t.color
    /\ \E k \in 0..3 : IsShape(current_shape, 0, k)
    /\ shape_placed /\ pieces = 0 /\ fault = "none"

\* C19: a tick moves the current piece down by exactly one row, changing
\* nothing else, when the position one row lower is legal; otherwise it
\* leaves the piece where it is, writes its 4 cells into the board and sets
\* the placed flag.  It never changes the column or the offsets, and it
\* ends without a fault.
C19_TickEffect ==
    LET t == tick(board, current_shape)
    IN  /\ ~t.underflow /\ t.lockok
        /\ t.shape.x = current_shape.x
        /\ t.shape.block_locs = current_shape.block_locs
        /\ t.shape.color = current_shape.color
        /\ IF CellsLegal(board, add_pos(current_shape, 0, 1))
           THEN /\ t.shape.y = current_shape.y + 1
                /\ t.board = board
                /\ PlacedAfterTick(shape_placed, t.locked) = shape_placed
           ELSE /\ t.shape.y = current_shape.y
                /\ DOMAIN t.board = DOMAIN board \cup Cells(current_shape)
                /\ \A p \in DOMAIN t.board :
                       t.board[p] = IF p \in Cells(current_shape)
                                    THEN current_shape.color ELSE board[p]
                /\ PlacedAfterTick(shape_placed, t.locked) = TRUE

\* C19 witness: a tick has locked a piece, and a later tick has moved the
\* piece spawned after it down by one row
C19_Witness ==
    /\ placed_by = "tick" /\ ~shape_placed /\ fault = "none" /\ ~game_over
    /\ Occupied(board) >= 4
    /\ current_shape.y = get_spawn_loc[2] + 1
    /\ Cells(current_shape) \cap DOMAIN board = {}

\* C20: a post-placement resolution first makes the next piece the current
\* piece at the spawn location and tests it against the board as the lock
\* left it, before any row is cleared.  Only if it is legal does it draw a
\* new next piece, clear the completed rows, add the score and reset the
\* placed flag; if it is illegal no row is cleared, no score is added and
\* the flag stays set.
C20_ResolutionOrder ==
    [][\A dt \in Elapsed :
          ((shape_placed \/ TickLocks(dt)) /\ fault' = "none"
           /\ UpdateStep(dt))
          => /\ current_shape' = spawn_next_shape(next_shape)
             /\ IF CellsLegal(BoardAtResolution(dt),
                              spawn_next_shape(next_shape))
                THEN /\ next_shape' \in PreviewShapes
                     /\ board' = ClearBottomUp(BoardAtResolution(dt))
                     /\ score' = score + SCORE_PER_ROW *
                            Cardinality(FullRows(BoardAtResolution(dt)))
                     /\ ~shape_placed'
                     /\ ret' = FALSE /\ ~game_over'
                ELSE /\ next_shape' = next_shape
                     /\ board' = BoardAtResolution(dt)
                     /\ score' = score
                     /\ shape_placed'
                     /\ ret' = TRUE /\ game_over']_vars

\* C20 witness: the spawn was found blocked while the board held complete
\* rows; they are still there, the score was not added, the flag is set
C20_Witness ==
    /\ game_over /\ shape_placed /\ ret = TRUE /\ fault = "none"
    /\ FullRows(board) # {}
    /\ ~CellsLegal(board, current_shape)
    /\ current_shape.y = get_spawn_loc[2]

\* the shapes is_position_legal can be called with from the present state:
\* the candidates of the keys and of gravity, the positions a hard drop
\* walks through, and the next piece at the spawn location
CheckedShapes ==
    Candidates(current_shape)
        \cup {add_pos(current_shape, 0, k) : k \in 1..GAMEBOARD_HEIGHT}
        \cup {spawn_next_shape(next_shape)}

\* C21: are_locs_empty is never handed a coordinate outside [0,10) x [0,20):
\* for every shape is_position_legal can be called with, the lookup is made
\* only with cells of the grid, and a shape with a cell outside the grid
\* (wrapped or not) causes no lookup at all.
C21_LookupInGrid ==
    \A c \in CheckedShapes :
        /\ \A p \in LookedUpLocs(c) : CellInGrid(p)
        /\ (\E i \in 1..4 : ~CellInGrid(Cell(c, i))) => LookedUpLocs(c) = {}

\* a key candidate left of the board, whose coordinate wraps, next to a
\* candidate that is looked up
C21_Witness ==
    /\ fault = "none"
    /\ \E c \in Candidates(current_shape) :
           MappedLocsUnderflow(c) /\ LookedUpLocs(c) = {}
    /\ \E d \in Candidates(current_shape) : LookedUpLocs(d) # {}
    /\ DOMAIN board # {}

\* C22: rotate_cw replaces every offset (ox, oy) by (-oy, ox) and rotate_ccw
\* replaces every offset (ox, oy) by (oy, -ox), each on all 4 offsets, and
\* both leave position and colour alone; rotate_cw followed by rotate_ccw,
\* and the reverse, give back the original piece.
C22_RotationFormulas ==
    \A t \in {current_shape, next_shape} :
        /\ \A i \in 1..4 :
               /\ rotate_cw(t).block_locs[i] =
                      << 0 - t.block_locs[i][2], t.block_locs[i][1] >>
               /\ rotate_ccw(t).block_locs[i] =
                      << t.block_locs[i][2], 0 - t.block_locs[i][1] >>
        /\ DOMAIN rotate_cw(t).block_locs = 1..4
        /\ DOMAIN rotate_ccw(t).block_locs = 1..4
        /\ SamePlace(rotate_cw(t), t) /\ rotate_cw(t).color = t.color
        /\ SamePlace(rotate_ccw(t), t) /\ rotate_ccw(t).color = t.color
        /\ rotate_ccw(rotate_cw(t)) = t
        /\ rotate_cw(rotate_ccw(t)) = t

\* C22 witness: the J piece lies turned clockwise by a quarter turn, away
\* from the spawn column, after key presses
C22_Witness ==
    /\ fault = "none" /\ ret = TRUE
    /\ IsShape(current_shape, 6, 1)
    /\ current_shape.x # get_spawn_loc[1]

\* C23: whenever the game is not over and the placed flag is false, the
\* current piece is in a legal position: its 4 cells are in the grid and
\* none is an occupied cell of the board; also right after a resolution
\* that removed rows after the new piece was spawned.
C23_CurrentLegal ==
    (~game_over /\ ~shape_placed /\ fault = "none")
        => CellsLegal(board, current_shape)

\* C24: between the lock of a piece and the resolution that follows it, no
\* key event moves the locked current piece or writes a board cell: a step
\* that begins and ends with the placed flag set, without ending the game,
\* leaves the current piece and the board as they were.
C24_LockedPieceStays ==
    [][(shape_placed /\ shape_placed' /\ ~game_over' /\ fault' = "none")
       => (current_shape' = current_shape /\ board' = board)]_vars

\* C25: game over is absorbing: once an update has returned true, every
\* later update that returns, returns true, whatever keys are pressed in
\* between; the score and the next piece never change again.
C25_GameOverAbsorbing ==
    [][game_over
       => /\ game_over'
          /\ score' = score
          /\ next_shape' = next_shape
          /\ (fault' = "none" /\ UpdateStep(SECONDS_PER_TICK))
                 => (ret' = TRUE /\ shape_placed')]_vars

\* C25 witness: after game over a key has moved the piece off the spawn
\* column, later updates have let it fall and a lock has added its cells
C25_Witness ==
    /\ game_over /\ fault = "none" /\ ret = TRUE
    /\ current_shape.x = get_spawn_loc[1]
    /\ current_shape.y = get_spawn_loc[2]
    /\ \E p \in DOMAIN board : p[1] # SpawnCol /\ p[2] > 10

\* C26: right after every post-placement resolution that does not end the
\* game, no row of the board is fully occupied.
C26_NoFullRowAfterResolution ==
    [][pieces' = pieces + 1
       => \A y \in Rows : \E x \in Cols : <<x, y>> \notin DOMAIN board']_vars

\* C26 witness: a resolution has removed the row the dropped piece
\* completed and has left the rest of the stack in the board
C26_Witness ==
    /\ pieces = 1 /\ score = SCORE_PER_ROW /\ ~shape_placed
    /\ fault = "none" /\ ret = FALSE /\ ~game_over
    /\ DOMAIN board # {}

\* successful descents of `while attempt_move(0, 1)` from cur, counted up
\* to fuel
RECURSIVE StepsDown(_, _, _)
StepsDown(b, cur, fuel) ==
    IF fuel = 0 \/ ~attempt_move(b, cur, 0, 1).ok
    THEN 0
    ELSE 1 + StepsDown(b, add_pos(cur, 0, 1), fuel - 1)

\* C27: the hard-drop loop terminates from every reachable state, also
\* after game over and on a piece that is already locked: it makes at most
\* 20 successful descents, and drop() ends exactly there.
C27_DropTerminates ==
    LET n == StepsDown(board, current_shape, GAMEBOARD_HEIGHT + 1)
    IN  /\ n <= GAMEBOARD_HEIGHT
        /\ drop(board, current_shape, << >>).shape =
               add_pos(current_shape, 0, n)
        /\ ~attempt_move(board, add_pos(current_shape, 0, n), 0, 1).ok

\* C27 witness: after game over a key has moved the piece off the stack,
\* where the loop has 15 descents or more before it
C27_Witness ==
    /\ game_over /\ shape_placed /\ fault = "none"
    /\ current_shape.x # get_spawn_loc[1]
    /\ StepsDown(board, current_shape, GAMEBOARD_HEIGHT + 1) >= 15

\* the columns the cells of a piece at the spawn column can lie in
SpawnColumns == (SpawnCol - 1)..(SpawnCol + 1)

\* C28: with no key event and updates that keep triggering ticks, the game
\* reaches game over whatever pieces are drawn: the pieces stack in the
\* spawn columns, no row is ever completed, nothing is scored, no call
\* faults, and after finitely many pieces the spawn position is blocked.
C28_EventuallyGameOver ==
    <>(/\ game_over
       /\ fault = "none"
       /\ score = 0
       /\ \A p \in DOMAIN board : p[1] \in SpawnColumns
       /\ \A y \in Rows : \E x \in Cols : <<x, y>> \notin DOMAIN board
       /\ pieces <= (3 * GAMEBOARD_HEIGHT) \div 4)

\* C28 witness: the game is over after two pieces were stacked and
\* resolved, without a score
C28_Witness ==
    /\ game_over /\ ret = TRUE /\ fault = "none"
    /\ pieces = 2 /\ score = 0
    /\ \E p \in DOMAIN board : p[1] = SpawnCol - 1
    /\ \E p \in DOMAIN board : p[1] = SpawnCol + 1

====
